---- MODULE Spec2Model ----
(***************************************************************************)
(* A model of PrefixTree (src/prefixtree.py).  Python objects live in a    *)
(* heap `nodes`: a sequence of node records, a node reference is its index.*)
(* A Python string is a sequence of characters; '' is <<>>.  A node's      *)
(* `children` dict is a sequence of <<key, reference>> pairs in insertion  *)
(* order, which is the order dict.items() yields.                          *)
(***************************************************************************)
EXTENDS Integers, Sequences, FiniteSets, TLC

VARIABLES nodes, size, inserted, ninserts, last, error

vars == <<nodes, size, inserted, ninserts, last, error>>

\* ------------------------------------------------------------------ bounds
Chars == {"A", "B"}
MaxLen == 2
MaxInit == 1
MaxInserts == 2

RECURSIVE StringsOfLen(_)
StringsOfLen(n) ==
    IF n = 0 THEN {<<>>}
    ELSE {Append(s, c) : s \in StringsOfLen(n - 1), c \in Chars}

\* every argument string the callers pass: all strings of length 0..MaxLen
Inputs == UNION {StringsOfLen(n) : n \in 0..MaxLen}

RECURSIVE SeqsOfLen(_)
SeqsOfLen(n) ==
    IF n = 0 THEN {<<>>}
    ELSE {Append(q, s) : q \in SeqsOfLen(n - 1), s \in Inputs}

\* the `strings` arguments of the constructor (None is the empty list here:
\* both insert nothing)
InitInputs == UNION {SeqsOfLen(n) : n \in 0..MaxInit}

IsPrefixOf(p, s) == Len(p) <= Len(s) /\ SubSeq(s, 1, Len(p)) = p

ToSet(q) == {q[i] : i \in 1..Len(q)}

\* ------------------------------------------------------- PrefixTreeNode
START_CHARACTER == ""

root == 1

\* the failed lookup of get_child
NoNode == 0

PrefixTreeNode(character) ==
    [character |-> character, children |-> <<>>, terminal |-> FALSE]

has_child(h, n, c) ==
    \E i \in 1..Len(h[n].children) : h[n].children[i][1] = c

get_child(h, n, c) ==
    IF has_child(h, n, c)
    THEN LET i == CHOOSE j \in 1..Len(h[n].children) : h[n].children[j][1] = c
         IN  h[n].children[i][2]
    ELSE NoNode

\* rejects (leaves the node alone) when the key already has a child
add_child(h, n, c, child) ==
    IF has_child(h, n, c) THEN h
    ELSE [h EXCEPT ![n].children = Append(@, <<c, child>>)]

is_terminal(h, n) == h[n].terminal

\* ------------------------------------------------------------ PrefixTree
RECURSIVE FindLoop(_, _, _, _, _)
FindLoop(h, node, depth, string, i) ==
    IF i > Len(string) THEN [node |-> node, depth |-> depth, err |-> FALSE]
    ELSE IF has_child(h, node, string[i])
         THEN LET child == get_child(h, node, string[i])
              IN  IF child = NoNode
                  THEN [node |-> node, depth |-> depth, err |-> TRUE]
                  ELSE FindLoop(h, child, depth + 1, string, i + 1)
         ELSE [node |-> node, depth |-> depth, err |-> FALSE]

\* find_node with `continue` in place of the early return
RECURSIVE FindLoopNoReturn(_, _, _, _, _)
FindLoopNoReturn(h, node, depth, string, i) ==
    IF i > Len(string) THEN [node |-> node, depth |-> depth, err |-> FALSE]
    ELSE IF has_child(h, node, string[i])
         THEN FindLoopNoReturn(h, get_child(h, node, string[i]), depth + 1,
                               string, i + 1)
         ELSE FindLoopNoReturn(h, node, depth, string, i + 1)

find_node_noreturn(h, string) ==
    IF Len(string) = 0 THEN [node |-> root, depth |-> 0, err |-> FALSE]
    ELSE FindLoopNoReturn(h, root, 0, string, 1)

\* find_node that calls get_child without asking has_child first
RECURSIVE FindLoopUnguarded(_, _, _, _, _)
FindLoopUnguarded(h, node, depth, string, i) ==
    IF i > Len(string) THEN [node |-> node, depth |-> depth, err |-> FALSE]
    ELSE LET child == get_child(h, node, string[i])
         IN  IF child = NoNode
             THEN [node |-> node, depth |-> depth, err |-> TRUE]
             ELSE FindLoopUnguarded(h, child, depth + 1, string, i + 1)

find_node_unguarded(h, string) ==
    IF Len(string) = 0 THEN [node |-> root, depth |-> 0, err |-> FALSE]
    ELSE FindLoopUnguarded(h, root, 0, string, 1)

find_node(h, string) ==
    IF Len(string) = 0 THEN [node |-> root, depth |-> 0, err |-> FALSE]
    ELSE FindLoop(h, root, 0, string, 1)

\* contains without the terminal test
contains_noterminal(h, string) ==
    find_node(h, string).depth = Len(string)

contains(h, string) ==
    LET r == find_node(h, string)
    IN  r.depth = Len(string) /\ is_terminal(h, r.node)

\* is_empty with the branches swapped
is_empty_swapped(sz) == IF sz = 0 THEN FALSE ELSE TRUE

is_empty(sz) == IF sz = 0 THEN TRUE ELSE FALSE

RECURSIVE InsertLoop(_, _, _, _)
InsertLoop(h, node, string, i) ==
    IF i > Len(string) THEN [nodes |-> h, node |-> node, err |-> FALSE]
    ELSE LET char == string[i] IN
         IF has_child(h, node, char)
         THEN LET child == get_child(h, node, char)
              IN  IF child = NoNode
                  THEN [nodes |-> h, node |-> node, err |-> TRUE]
                  ELSE InsertLoop(h, child, string, i + 1)
         ELSE LET child_node == Len(h) + 1
                  h1 == Append(h, PrefixTreeNode(char))
                  h2 == add_child(h1, node, char, child_node)
              IN  IF h2 = h1
                  THEN [nodes |-> h1, node |-> node, err |-> TRUE]
                  ELSE InsertLoop(h2, child_node, string, i + 1)

\* insert that counts every call, duplicate or not
insert_always_counts(t, string) ==
    LET w == InsertLoop(t.nodes, root, string, 1)
    IN  [nodes |-> [w.nodes EXCEPT ![w.node].terminal = TRUE],
         size  |-> t.size + 1,
         err   |-> w.err]

\* insert that asks contains only after the walk has marked the node
insert_late_check(t, string) ==
    LET w == InsertLoop(t.nodes, root, string, 1)
        h == [w.nodes EXCEPT ![w.node].terminal = TRUE]
    IN  [nodes |-> h,
         size  |-> IF ~contains(h, string) THEN t.size + 1 ELSE t.size,
         err   |-> w.err]

\* insert that marks every node of the walk terminal
RECURSIVE MarkPath(_, _, _, _)
MarkPath(h, node, string, i) ==
    IF i > Len(string) THEN h
    ELSE LET child == get_child(h, node, string[i])
         IN  MarkPath([h EXCEPT ![child].terminal = TRUE], child, string, i + 1)

insert_marks_walk(t, string) ==
    LET already_exists == contains(t.nodes, string)
        w == InsertLoop(t.nodes, root, string, 1)
        h == [w.nodes EXCEPT ![w.node].terminal = TRUE]
    IN  [nodes |-> MarkPath(h, root, string, 1),
         size  |-> IF ~already_exists THEN t.size + 1 ELSE t.size,
         err   |-> w.err]

\* insert that forgets to mark the final node when it made no new node
insert_marks_new_only(t, string) ==
    LET already_exists == contains(t.nodes, string)
        w == InsertLoop(t.nodes, root, string, 1)
    IN  [nodes |-> IF Len(w.nodes) > Len(t.nodes)
                   THEN [w.nodes EXCEPT ![w.node].terminal = TRUE]
                   ELSE w.nodes,
         size  |-> IF ~already_exists THEN t.size + 1 ELSE t.size,
         err   |-> w.err]

\* insert on the tree [nodes, size]; err is a raised exception
insert(t, string) ==
    LET already_exists == contains(t.nodes, string)
        w == InsertLoop(t.nodes, root, string, 1)
    IN  IF find_node(t.nodes, string).err
        THEN [nodes |-> t.nodes, size |-> t.size, err |-> TRUE]
        ELSE IF w.err THEN [nodes |-> w.nodes, size |-> t.size, err |-> TRUE]
        ELSE [nodes |-> [w.nodes EXCEPT ![w.node].terminal = TRUE],
              size  |-> IF ~already_exists THEN t.size + 1 ELSE t.size,
              err   |-> FALSE]

RECURSIVE traverse(_, _, _, _), TraverseChildren(_, _, _, _, _)
traverse(h, node, prefix, visited) ==
    LET v == IF is_terminal(h, node) THEN Append(visited, prefix) ELSE visited
    IN  TraverseChildren(h, node, prefix, 1, v)

TraverseChildren(h, node, prefix, i, visited) ==
    IF i > Len(h[node].children) THEN visited
    ELSE LET item == h[node].children[i]
         IN  TraverseChildren(h, node, prefix, i + 1,
                 traverse(h, item[2], prefix \o <<item[1]>>, visited))

\* complete without the depth test
complete_nodepthtest(h, prefix) ==
    traverse(h, find_node(h, prefix).node, prefix, <<>>)

complete(h, prefix) ==
    LET r == find_node(h, prefix)
    IN  IF r.depth = Len(prefix) THEN traverse(h, r.node, prefix, <<>>)
        ELSE <<>>

\* strings that starts below the root and so never visits it
strings_skips_root(h) == TraverseChildren(h, root, <<>>, 1, <<>>)

strings(h) == traverse(h, root, <<>>, <<>>)

RECURSIVE InitLoop(_, _, _)
InitLoop(t, strs, i) ==
    IF i > Len(strs) \/ t.err THEN t
    ELSE InitLoop(insert(t, strs[i]), strs, i + 1)

\* PrefixTree(strs)
PrefixTreeInit(strs) ==
    InitLoop([nodes |-> <<PrefixTreeNode(START_CHARACTER)>>, size |-> 0,
              err |-> FALSE], strs, 1)

\* --------------------------------------------------------------- actions
Init ==
    \E strs \in InitInputs :
        LET t == PrefixTreeInit(strs) IN
        /\ nodes = t.nodes
        /\ size = t.size
        /\ error = t.err
        /\ inserted = ToSet(strs)
        /\ ninserts = Len(strs)
        /\ last = [op |-> "init", arg |-> <<>>, ret |-> <<>>,
                   preNodes |-> t.nodes, preSize |-> t.size]

Insert(s) ==
    /\ ninserts < MaxInserts
    /\ LET t == insert([nodes |-> nodes, size |-> size], s) IN
       /\ nodes' = t.nodes
       /\ size' = t.size
       /\ error' = (error \/ t.err)
    /\ inserted' = inserted \cup {s}
    /\ ninserts' = ninserts + 1
    /\ last' = [op |-> "insert", arg |-> s, ret |-> <<>>,
                preNodes |-> nodes, preSize |-> size]

Query(op, s, ret, err) ==
    /\ last' = [op |-> op, arg |-> s, ret |-> ret,
                preNodes |-> nodes, preSize |-> size]
    /\ error' = (error \/ err)
    /\ UNCHANGED <<nodes, size, inserted, ninserts>>

Contains(s) ==
    Query("contains", s, contains(nodes, s), find_node(nodes, s).err)

Complete(p) ==
    Query("complete", p, complete(nodes, p), find_node(nodes, p).err)

Strings == Query("strings", <<>>, strings(nodes), FALSE)

IsEmpty == Query("is_empty", <<>>, is_empty(size), FALSE)

Next ==
    \/ \E s \in Inputs : Insert(s)
    \/ \E s \in Inputs : Contains(s)
    \/ \E p \in Inputs : Complete(p)
    \/ Strings
    \/ IsEmpty

Spec == Init /\ [][Next]_vars

\* ------------------------------------------- the tree seen from outside
\* These read the heap through the parent relation, not through find_node.
NodeIds(h) == 1..Len(h)

HasEdge(h, p, n) ==
    \E i \in 1..Len(h[p].children) : h[p].children[i][2] = n

EdgeKey(h, p, n) ==
    h[p].children[CHOOSE i \in 1..Len(h[p].children) : h[p].children[i][2] = n][1]

\* the string spelled from the root down to node n; <<"?">> for a node that
\* hangs on no parent
RECURSIVE PathOf(_, _)
PathOf(h, n) ==
    IF n = root THEN <<>>
    ELSE IF \E p \in NodeIds(h) : p # n /\ HasEdge(h, p, n)
         THEN LET p == CHOOSE q \in NodeIds(h) : q # n /\ HasEdge(h, q, n)
              IN  PathOf(h, p) \o <<EdgeKey(h, p, n)>>
         ELSE <<"?">>

RECURSIVE Descendants(_, _)
Descendants(h, n) ==
    {n} \cup UNION {Descendants(h, h[n].children[i][2]) :
                       i \in 1..Len(h[n].children)}

Reachable(h) == Descendants(h, root)

TerminalNodes(h) == {n \in Reachable(h) : h[n].terminal}

\* the strings that have a path from the root
Paths(h) == {PathOf(h, n) : n \in Reachable(h)}

NoDuplicates(q) == \A i, j \in 1..Len(q) : q[i] = q[j] => i = j

tree == [nodes |-> nodes, size |-> size]

\* The tree changes only in the constructor and in insert.  P, a statement
\* about the tree alone, is checked in the state each of them leaves; a query
\* must have left the tree of its call as it was, so P carries over.
OnEveryTree(P) ==
    IF last.op \in {"init", "insert"} THEN P
    ELSE nodes = last.preNodes /\ size = last.preSize

\* ---------------------------------------------------------------- claims

\* C1: contains(S) is true exactly for the strings that were inserted; a
\* strict prefix of stored strings that was never inserted yields false.
C1_ContainsIffInserted ==
    /\ OnEveryTree(\A s \in Inputs : contains(nodes, s) <=> (s \in inserted))
    /\ last.op = "contains" => (last.ret <=> (last.arg \in inserted))

C1_Witness ==
    /\ last.op = "contains"
    /\ last.ret = FALSE
    /\ \E u, t \in inserted :
          /\ u # t /\ IsPrefixOf(u, t) /\ contains(nodes, u)
          /\ last.arg # t /\ IsPrefixOf(last.arg, t)

\* C2: after insert(S) contains(S) is true, and size grew by exactly 1 if S
\* was not contained before the call and is unchanged if it was.
C2_InsertPostcondition ==
    last.op = "insert" =>
        /\ contains(nodes, last.arg)
        /\ size = last.preSize
                  + (IF contains(last.preNodes, last.arg) THEN 0 ELSE 1)

C2_Witness ==
    /\ last.op = "insert"
    /\ ~contains(last.preNodes, last.arg)
    /\ Len(nodes) = Len(last.preNodes)
    /\ last.preSize > 0
    /\ size = last.preSize + 1

\* C3: the set of strings complete(P) returns is exactly the set of stored
\* strings that start with P; it is empty when find_node matched fewer than
\* len(P) characters.
C3_CompleteIsPrefixFilter ==
    /\ OnEveryTree(\A p \in Inputs :
          /\ ToSet(complete(nodes, p)) = {s \in inserted : IsPrefixOf(p, s)}
          /\ find_node(nodes, p).depth < Len(p) => complete(nodes, p) = <<>>)
    /\ last.op = "complete" =>
          ToSet(last.ret) = {s \in inserted : IsPrefixOf(last.arg, s)}

C3_Witness ==
    /\ last.op = "complete"
    /\ Len(last.arg) > 0
    /\ last.arg \in inserted
    /\ Len(last.ret) > 1

\* C4: strings() and complete('') return the same sequence, and it holds
\* every distinct inserted string exactly once, also after repeated inserts
\* of one string.
C4_StringsEnumeratesOnce ==
    /\ OnEveryTree(/\ strings(nodes) = complete(nodes, <<>>)
                   /\ ToSet(strings(nodes)) = inserted
                   /\ NoDuplicates(strings(nodes)))
    /\ last.op = "strings" =>
          /\ last.ret = complete(nodes, <<>>)
          /\ ToSet(last.ret) = inserted
          /\ Len(last.ret) = Cardinality(inserted)

C4_Witness ==
    /\ last.op = "strings"
    /\ ninserts > Cardinality(inserted)
    /\ Len(last.ret) > 0

\* what a caller can observe of a tree
Observed(t) ==
    [size |-> t.size,
     empty |-> is_empty(t.size),
     contains |-> [s \in Inputs |-> contains(t.nodes, s)],
     complete |-> [p \in Inputs |-> complete(t.nodes, p)],
     strings |-> strings(t.nodes)]

\* C5: insert(S) twice in a row gives the same size and the same contains,
\* complete and strings results as insert(S) once.
C5_InsertIdempotent ==
    /\ OnEveryTree(\A s \in Inputs :
          LET once == insert(tree, s)
              twice == insert(once, s)
          IN  Observed(twice) = Observed(once))
    /\ last.op = "insert" =>
          Observed(insert(tree, last.arg)) = Observed(tree)

C5_Witness ==
    /\ last.op = "insert"
    /\ contains(last.preNodes, last.arg)
    /\ Len(last.arg) > 0
    /\ Observed(tree) = Observed([nodes |-> last.preNodes, size |-> last.preSize])

\* C6: size is the number of terminal nodes reachable from the root, which
\* is the number of distinct strings inserted; each terminal node spells
\* exactly one inserted string.
C6_SizeCountsTerminals ==
    /\ size = Cardinality(inserted)
    /\ OnEveryTree(
          /\ size = Cardinality(TerminalNodes(nodes))
          /\ {PathOf(nodes, n) : n \in TerminalNodes(nodes)} = inserted
          /\ \A m, n \in TerminalNodes(nodes) :
                PathOf(nodes, m) = PathOf(nodes, n) => m = n)

C6_Witness ==
    /\ last.op = "insert"
    /\ size = 2
    /\ \E n \in TerminalNodes(nodes) : Len(nodes[n].children) > 0 /\ n # root

\* C7: is_empty() is true iff size = 0; both hold for a tree constructed
\* with no strings, and once any string has been inserted is_empty() is
\* false in every later state.
C7_IsEmptyIffSizeZero ==
    /\ is_empty(size) <=> (size = 0)
    /\ ninserts = 0 => (is_empty(size) /\ size = 0)
    /\ ninserts > 0 => ~is_empty(size)
    /\ last.op = "is_empty" => (last.ret <=> (inserted = {}))

C7_Witness ==
    /\ last.op = "is_empty"
    /\ last.ret = FALSE
    /\ inserted = {<<>>}

\* the length of the longest prefix of s among the paths P
LongestPath(P, s) ==
    CHOOSE k \in 0..Len(s) :
        /\ SubSeq(s, 1, k) \in P
        /\ \A j \in (k + 1)..Len(s) : SubSeq(s, 1, j) \notin P

\* C8: find_node(string) returns the node reached by the first depth
\* characters of string, 0 <= depth <= len(string), depth is the length of
\* the longest prefix of string with a path in the tree, depth = len(string)
\* iff the whole string has a path, (root, 0) for the empty string, and the
\* tree is left as it was.
C8_FindNodeLongestPrefix ==
    /\ OnEveryTree(LET P == Paths(nodes) IN \A s \in Inputs :
          LET r == find_node(nodes, s) IN
          /\ r.depth \in 0..Len(s)
          /\ r.node \in Reachable(nodes)
          /\ PathOf(nodes, r.node) = SubSeq(s, 1, r.depth)
          /\ r.depth = LongestPath(P, s)
          /\ (r.depth = Len(s)) <=> (s \in P)
          /\ s = <<>> => (r.node = root /\ r.depth = 0))
    /\ last.op \in {"contains", "complete"} =>
          /\ nodes = last.preNodes
          /\ size = last.preSize

\* contains has called find_node on a string the tree matches in part
C8_Witness ==
    /\ last.op = "contains"
    /\ find_node(nodes, last.arg).depth > 0
    /\ find_node(nodes, last.arg).depth < Len(last.arg)
    /\ find_node(nodes, last.arg).node # root

\* the old children entries are still the first entries of the new mapping
KeepsChildren(old, new) ==
    /\ Len(old) <= Len(new)
    /\ SubSeq(new, 1, Len(old)) = old

\* C9: insert(string) only adds: it creates len(string) minus the depth
\* find_node matched before the call new nodes (at most len(string)), every
\* old node keeps its root path and its children entries, and no terminal
\* flag changes but that of the final node of string's path, which is set.
C9_InsertOnlyAdds ==
    last.op = "insert" =>
        LET old == last.preNodes
            final == find_node(nodes, last.arg).node
        IN  /\ Len(nodes) - Len(old)
                  = Len(last.arg) - find_node(old, last.arg).depth
            /\ Len(nodes) - Len(old) <= Len(last.arg)
            /\ \A n \in NodeIds(old) :
                  /\ nodes[n].character = old[n].character
                  /\ KeepsChildren(old[n].children, nodes[n].children)
                  /\ PathOf(nodes, n) = PathOf(old, n)
                  /\ old[n].terminal => nodes[n].terminal
                  /\ n # final => (nodes[n].terminal = old[n].terminal)
            /\ \A n \in NodeIds(nodes) \ NodeIds(old) :
                  n # final => ~nodes[n].terminal
            /\ nodes[final].terminal

C9_Witness ==
    /\ last.op = "insert"
    /\ find_node(last.preNodes, last.arg).depth > 0
    /\ Len(nodes) > Len(last.preNodes)
    /\ \E n \in NodeIds(last.preNodes) : last.preNodes[n].terminal

\* C10: get_child(c) is only invoked on a node that has a child for c, so
\* no operation raises.
C10_NoLookupError ==
    /\ error = FALSE
    /\ OnEveryTree(\A s \in Inputs :
          /\ ~find_node(nodes, s).err
          /\ ~insert(tree, s).err)

C10_Witness ==
    /\ last.op = "insert"
    /\ find_node(last.preNodes, last.arg).depth = Len(last.arg)
    /\ Len(last.arg) = MaxLen
    /\ ~error

====
